---- MODULE Spec2Model ----
(***************************************************************************)
(* Model of src/server.py, the DDGS MCP server: handle_call_tool and the   *)
(* five search handlers, the module-level client cache ddgs_instance, and  *)
(* the argument clean-up and result formatting the handlers perform.       *)
(*                                                                         *)
(* Python values are tagged records.  A Python str is a sequence of        *)
(* one-character strings, so that strip() and startswith() are computed    *)
(* character by character.  Rendered text is a sequence of pieces, each a  *)
(* literal of the source or a character of a value.                        *)
(***************************************************************************)
EXTENDS Integers, Sequences, FiniteSets, TLC

\* Number of tool invocations in one behaviour.
MaxInv == 2

----------------------------------------------------------------------------
(* Python values *)

Absent == [t |-> "absent"]
None == [t |-> "none"]
Str(s) == [t |-> "str", v |-> s]
PyInt(n) == [t |-> "int", v |-> n]

\* bool(v)
Truthy(v) ==
    CASE v.t = "str" -> v.v # <<>>
      [] v.t = "int" -> v.v # 0
      [] OTHER -> FALSE

\* arguments.get(key, default) / result.get(key, default) on a stored value
Get(v, default) == IF v = Absent THEN default ELSE v

\* result.get(key, default) on a provider result record
GetField(result, key, default) ==
    IF key \in DOMAIN result THEN result[key] ELSE default

Whitespace == {" ", "\t", "\n"}
QuoteChars == {"'", "\""}

RECURSIVE lstrip(_, _)
lstrip(s, chars) ==
    IF s # <<>> /\ Head(s) \in chars THEN lstrip(Tail(s), chars) ELSE s

RECURSIVE rstrip(_, _)
rstrip(s, chars) ==
    IF s # <<>> /\ s[Len(s)] \in chars
    THEN rstrip(SubSeq(s, 1, Len(s) - 1), chars)
    ELSE s

\* str.strip() with chars = Whitespace, str.strip("'\"") with chars = QuoteChars
strip(s, chars) == rstrip(lstrip(s, chars), chars)

\* str.startswith(prefix)
startswith(s, prefix) ==
    Len(s) >= Len(prefix) /\ SubSeq(s, 1, Len(prefix)) = prefix

DigitChar == <<"0", "1", "2", "3", "4", "5", "6", "7", "8", "9">>

\* str(n) for n >= 0
RECURSIVE Decimal(_)
Decimal(n) ==
    IF n < 10 THEN <<DigitChar[n + 1]>>
    ELSE Decimal(n \div 10) \o <<DigitChar[(n % 10) + 1]>>

\* The text an f-string renders for a value
FStr(v) ==
    CASE v.t = "str" -> v.v
      [] v.t = "int" -> Decimal(v.v)
      [] OTHER -> <<"None">>

Exc(type, msg) == [t |-> "exc", type |-> type, msg |-> msg]

TextContent(text) == [type |-> "text", text |-> text]

Return(content) == [tag |-> "return", content |-> content, exc |-> None]
Raise(e) == [tag |-> "raise", content |-> <<>>, exc |-> e]

----------------------------------------------------------------------------
(* The tools and the literals of the source *)

TextTool == "ddgs_text_search"
ImageTool == "ddgs_image_search"
VideoTool == "ddgs_video_search"
NewsTool == "ddgs_news_search"
BookTool == "ddgs_book_search"

ToolNames == {TextTool, ImageTool, VideoTool, NewsTool, BookTool}

auto == <<"a", "u", "t", "o">>
duckduckgo == <<"d", "u", "c", "k", "d", "u", "c", "k", "g", "o">>
bing == <<"b", "i", "n", "g">>
NA == <<"N", "/", "A">>
HttpPrefix == <<"h", "t", "t", "p", ":", "/", "/">>
HttpsPrefix == <<"h", "t", "t", "p", "s", ":", "/", "/">>
HttpsColon == <<"h", "t", "t", "p", "s", ":">>
SlashSlash == <<"/", "/">>

DefaultMaxResults == 10
DefaultTimeout == 10
DescriptionLimit == 200
SchemaMinimum == 1
SchemaMaximum == 100

----------------------------------------------------------------------------
(* The provider client and the module-level cache *)

DDGS(id, proxy) ==
    [t |-> "DDGS", id |-> id, proxy |-> proxy,
     timeout |-> DefaultTimeout, verify |-> TRUE]

\* get_ddgs_instance(proxy): the client returned, the new value of the global
\* ddgs_instance, and the number of clients constructed so far.
get_ddgs_instance_rebuild(inst, built, proxy) ==
    [client |-> DDGS(built + 1, proxy),
     inst |-> DDGS(built + 1, proxy),
     built |-> built + 1]

get_ddgs_instance(inst, built, proxy) ==
    IF inst = None \/ Truthy(proxy)
    THEN [client |-> DDGS(built + 1, proxy),
          inst |-> DDGS(built + 1, proxy),
          built |-> built + 1]
    ELSE [client |-> inst, inst |-> inst, built |-> built]

----------------------------------------------------------------------------
(* Argument clean-up of handle_text_search *)

\* backend.strip().strip("'\"") when backend is truthy
CleanBackend(backend) ==
    IF Truthy(backend)
    THEN Str(strip(strip(backend.v, Whitespace), QuoteChars))
    ELSE backend

\* "auto" and falsy values become "duckduckgo"
ResolveBackend(backend) ==
    IF ~Truthy(backend) \/ backend = Str(auto) THEN Str(duckduckgo) ELSE backend

NormalizeBackend(backend) == ResolveBackend(CleanBackend(backend))

\* proxy_value: the stripped proxy when it is a non-blank string, else None
NormalizeProxy(proxy) ==
    IF Truthy(proxy) /\ proxy.t = "str" /\ strip(proxy.v, Whitespace) # <<>>
    THEN Str(strip(proxy.v, Whitespace))
    ELSE None

\* handle_news_search hands arguments.get("backend", "auto") to the provider
NewsBackend(backend) == backend

\* max_results = arguments.get("max_results", 10), handed to the provider
MaxResultsArg(arguments) == Get(arguments.max_results, PyInt(DefaultMaxResults))

\* The client handle_text_search uses: a new DDGS for this call; the global
\* ddgs_instance is not read or written.
TextClientViaCache(inst, built, proxy_value) ==
    get_ddgs_instance(inst, built, proxy_value)

TextClient(inst, built, proxy_value) ==
    [client |-> DDGS(built + 1, proxy_value), inst |-> inst, built |-> built + 1]

\* The client the image, video, news and book handlers use
SharedClient(inst, built) == get_ddgs_instance(inst, built, None)

----------------------------------------------------------------------------
(* Messages *)

NoTitle == <<"N", "o", " ", "t", "i", "t", "l", "e">>
NoDescription == <<"N", "o", " ", "d", "e", "s", "c", "r", "i", "p", "t", "i", "o", "n">>
Unknown == <<"?">>

KeyErrorQuery == Exc("KeyError", <<"'query'">>)
UnknownToolError(name) == Exc("ValueError", <<"Unknown tool: ", name>>)
NotSubscriptable(v) ==
    Exc("TypeError",
        IF v.t = "none" THEN <<"'NoneType' object is not subscriptable">>
        ELSE <<"'int' object is not subscriptable">>)
NoStartswith == Exc("AttributeError", <<"'int' object has no attribute 'startswith'">>)

SearchFailedText(e) ==
    <<"Search failed: ">> \o e.msg \o <<"\nTry a simpler query or different parameters.">>
SearchErrorText(e) ==
    <<"Search error: ">> \o e.msg \o <<"\nPlease try again with different parameters.">>
ErrorExecutingText(e) == <<"Error executing search: ">> \o e.msg

NoResultsText(name) ==
    CASE name = TextTool -> <<"No results found.">>
      [] name = ImageTool -> <<"No images found.">>
      [] name = VideoTool -> <<"No videos found.">>
      [] name = NewsTool -> <<"No news found.">>
      [] name = BookTool -> <<"No books found.">>

FoundText(name, n) ==
    CASE name = TextTool -> <<"Found ">> \o Decimal(n) \o <<" results:\n\n">>
      [] name = ImageTool -> <<"Found ">> \o Decimal(n) \o <<" images:\n\n">>
      [] name = VideoTool -> <<"Found ">> \o Decimal(n) \o <<" videos:\n\n">>
      [] name = NewsTool -> <<"Found ">> \o Decimal(n) \o <<" news articles:\n\n">>
      [] name = BookTool -> <<"Found ">> \o Decimal(n) \o <<" books:\n\n">>

----------------------------------------------------------------------------
(* Result formatting *)

\* "\n".join(entries)
RECURSIVE Join(_)
Join(entries) ==
    IF entries = <<>> THEN <<>>
    ELSE IF Len(entries) = 1 THEN entries[1].content
    ELSE entries[1].content \o <<"\n">> \o Join(Tail(entries))

\* The for loop over enumerate(results, 1): the first entry that raises ends
\* the loop with its exception, else the header and the joined entries.
RECURSIVE FirstRaise(_)
FirstRaise(entries) ==
    IF entries = <<>> THEN None
    ELSE IF entries[1].tag = "raise" THEN entries[1].exc
    ELSE FirstRaise(Tail(entries))

Listing(name, entries) ==
    IF FirstRaise(entries) # None
    THEN Raise(FirstRaise(entries))
    ELSE Return(<<TextContent(FoundText(name, Len(entries)) \o Join(entries))>>)

\* The rewrite with one prefix for every url that lacks a scheme
TextUrlOnePrefix(result) ==
    LET url == GetField(result, "href", Str(NA)) IN
    IF Truthy(url) /\ url # Str(NA)
    THEN IF url.t # "str" THEN Raise(NoStartswith)
         ELSE IF ~(startswith(url.v, HttpPrefix) \/ startswith(url.v, HttpsPrefix))
         THEN Return(Str(HttpsPrefix \o url.v))
         ELSE Return(url)
    ELSE Return(url)

\* url of a text result: 'N/A' when absent, a schemeless url gets a scheme
TextUrl(result) ==
    LET url == GetField(result, "href", Str(NA)) IN
    IF Truthy(url) /\ url # Str(NA)
    THEN IF url.t # "str" THEN Raise(NoStartswith)
         ELSE IF ~(startswith(url.v, HttpPrefix) \/ startswith(url.v, HttpsPrefix))
         THEN Return(Str(IF ~startswith(url.v, SlashSlash)
                         THEN HttpsPrefix \o url.v
                         ELSE HttpsColon \o url.v))
         ELSE Return(url)
    ELSE Return(url)

TextEntry(i, result) ==
    LET url == TextUrl(result) IN
    IF url.tag = "raise" THEN url
    ELSE Return(Decimal(i) \o <<". ">>
                \o FStr(GetField(result, "title", Str(NoTitle)))
                \o <<"\n   URL: ">> \o FStr(url.content)
                \o <<"\n   ">> \o FStr(GetField(result, "body", Str(NoDescription)))
                \o <<"\n">>)

ImageEntry(i, result) ==
    Return(Decimal(i) \o <<". **">>
           \o FStr(GetField(result, "title", Str(NoTitle)))
           \o <<"**\n   Image: ">> \o FStr(GetField(result, "image", Str(NA)))
           \o <<"\n   Thumbnail: ">> \o FStr(GetField(result, "thumbnail", Str(NA)))
           \o <<"\n   Source: ">> \o FStr(GetField(result, "url", Str(NA)))
           \o <<"\n   Dimensions: ">> \o FStr(GetField(result, "width", Str(Unknown)))
           \o <<"x">> \o FStr(GetField(result, "height", Str(Unknown)))
           \o <<"\n">>)

\* result.get('description', 'No description')[:200]
VideoDescription(result) ==
    LET d == GetField(result, "description", Str(NoDescription)) IN
    IF d.t = "str"
    THEN Return(Str(SubSeq(d.v, 1, IF Len(d.v) < DescriptionLimit
                                   THEN Len(d.v) ELSE DescriptionLimit)))
    ELSE Raise(NotSubscriptable(d))

VideoEntry(i, result) ==
    LET d == VideoDescription(result) IN
    IF d.tag = "raise" THEN d
    ELSE Return(Decimal(i) \o <<". **">>
                \o FStr(GetField(result, "title", Str(NoTitle)))
                \o <<"**\n   URL: ">> \o FStr(GetField(result, "content", Str(NA)))
                \o <<"\n   Duration: ">> \o FStr(GetField(result, "duration", Str(NA)))
                \o <<"\n   Publisher: ">> \o FStr(GetField(result, "publisher", Str(NA)))
                \o <<"\n   Published: ">> \o FStr(GetField(result, "published", Str(NA)))
                \o <<"\n   Description: ">> \o FStr(d.content) \o <<"...\n">>)

NewsEntry(i, result) ==
    Return(Decimal(i) \o <<". **">>
           \o FStr(GetField(result, "title", Str(NoTitle)))
           \o <<"**\n   Source: ">> \o FStr(GetField(result, "source", Str(NA)))
           \o <<"\n   Date: ">> \o FStr(GetField(result, "date", Str(NA)))
           \o <<"\n   URL: ">> \o FStr(GetField(result, "url", Str(NA)))
           \o <<"\n   ">> \o FStr(GetField(result, "body", Str(NoDescription)))
           \o <<"\n">>)

BookEntry(i, result) ==
    Return(Decimal(i) \o <<". **">>
           \o FStr(GetField(result, "title", Str(NoTitle)))
           \o <<"**\n   Author: ">> \o FStr(GetField(result, "author", Str(NA)))
           \o <<"\n   Publisher: ">> \o FStr(GetField(result, "publisher", Str(NA)))
           \o <<"\n   Info: ">> \o FStr(GetField(result, "info", Str(NA)))
           \o <<"\n   URL: ">> \o FStr(GetField(result, "url", Str(NA)))
           \o <<"\n">>)

Entry(name, i, result) ==
    CASE name = TextTool -> TextEntry(i, result)
      [] name = ImageTool -> ImageEntry(i, result)
      [] name = VideoTool -> VideoEntry(i, result)
      [] name = NewsTool -> NewsEntry(i, result)
      [] name = BookTool -> BookEntry(i, result)

RECURSIVE EntriesFrom(_, _, _)
EntriesFrom(name, i, results) ==
    IF results = <<>> THEN <<>>
    ELSE <<Entry(name, i, Head(results))>> \o EntriesFrom(name, i + 1, Tail(results))

\* What a handler does with the provider's results when "if not results" is
\* left out: it goes straight to the listing.
ResultsResponseUnchecked(name, results) ==
    Listing(name, EntriesFrom(name, 1, results))

\* "if not results: return [No ... found.]", then the listing
ResultsResponse(name, results) ==
    IF results = <<>>
    THEN Return(<<TextContent(NoResultsText(name))>>)
    ELSE Listing(name, EntriesFrom(name, 1, results))

----------------------------------------------------------------------------
(* Handlers *)

NoCall ==
    [op |-> "none", ctx |-> "none", client |-> None,
     max_results |-> Absent, backend |-> Absent]

\* One call of ddgs.text / images / videos / news / books.  ctx is the thread
\* the call runs on: "worker" under asyncio.to_thread, "loop" when the
\* coroutine calls the provider itself.
ProviderCall(op, ctx, client, max_results, backend) ==
    [op |-> op, ctx |-> ctx, client |-> client,
     max_results |-> max_results, backend |-> backend]

NoOutcome == [t |-> "none", exc |-> None, results |-> <<>>]
Raises(e) == [t |-> "raise", exc |-> e, results |-> <<>>]
Returns(results) == [t |-> "return", exc |-> None, results |-> results]

\* What a handler hands back: its return value or the exception it lets out,
\* the exception that took it down an error path, and the except clause that
\* caught it.
Handled(result, exc, caught) == [result |-> result, exc |-> exc, caught |-> caught]

\* The if/elif chain of handle_call_tool
RouteUnknownToText(name) == IF name \in ToolNames THEN name ELSE TextTool

Route(name) == IF name \in ToolNames THEN name ELSE "unknown"

\* handle_call_tool without its except clause
handle_call_tool_reraise(h) == h

\* The try/except of handle_call_tool around the handler it awaits
handle_call_tool(h) ==
    IF h.result.tag = "raise"
    THEN Handled(Return(<<TextContent(ErrorExecutingText(h.result.exc))>>),
                 h.result.exc, "call_tool")
    ELSE h

\* The outer except of handle_text_search
TextExcept(h) ==
    IF h.result.tag = "raise"
    THEN Handled(Return(<<TextContent(SearchErrorText(h.result.exc))>>),
                 h.result.exc, "search_error")
    ELSE h

\* handle_text_search up to the await: arguments, clean-up, client, and the
\* call handed to asyncio.to_thread
TextPrepare(arguments, inst, built) ==
    IF arguments.query = Absent
    THEN [reached |-> FALSE, backend |-> Absent, proxy_value |-> Absent,
          ddgs |-> None, inst |-> inst, built |-> built, call |-> NoCall]
    ELSE LET backend == NormalizeBackend(Get(arguments.backend, Str(auto)))
             proxy_value == NormalizeProxy(Get(arguments.proxy, None))
             c == TextClient(inst, built, proxy_value)
         IN [reached |-> TRUE, backend |-> backend, proxy_value |-> proxy_value,
             ddgs |-> c.client, inst |-> c.inst, built |-> c.built,
             call |-> ProviderCall("text", "worker", c.client,
                                   MaxResultsArg(arguments), backend)]

\* handle_text_search after the await: the inner except, then formatting
\* under the outer except
TextFinish(outcome) ==
    IF outcome.t = "raise"
    THEN Handled(Return(<<TextContent(SearchFailedText(outcome.exc))>>),
                 outcome.exc, "search_failed")
    ELSE TextExcept(Handled(ResultsResponse(TextTool, outcome.results), None, "none"))

ProviderOp(name) ==
    CASE name = ImageTool -> "images"
      [] name = VideoTool -> "videos"
      [] name = NewsTool -> "news"
      [] name = BookTool -> "books"

\* handle_image_search, handle_video_search, handle_news_search and
\* handle_book_search up to the provider call
SharedPrepare(name, arguments, inst, built) ==
    IF arguments.query = Absent
    THEN [reached |-> FALSE, backend |-> Absent, proxy_value |-> Absent,
          ddgs |-> None, inst |-> inst, built |-> built, call |-> NoCall]
    ELSE LET c == SharedClient(inst, built)
             backend == IF name = NewsTool
                        THEN NewsBackend(Get(arguments.backend, Str(auto)))
                        ELSE Absent
         IN [reached |-> TRUE, backend |-> backend, proxy_value |-> Absent,
             ddgs |-> c.client, inst |-> c.inst, built |-> c.built,
             call |-> ProviderCall(ProviderOp(name), "loop", c.client,
                                   MaxResultsArg(arguments), backend)]

\* ... and from the provider call on: no try, an exception leaves the handler
SharedFinish(name, outcome) ==
    IF outcome.t = "raise"
    THEN Handled(Raise(outcome.exc), outcome.exc, "none")
    ELSE LET r == ResultsResponse(name, outcome.results) IN
         Handled(r, r.exc, "none")

----------------------------------------------------------------------------
(* Inputs *)

UnknownNames == {"ddgs_web_search"}

Query == Str(<<"q">>)
Proxy1 == <<"p", "1">>
Proxy2 == <<"p", "2">>

MaxResultsInputs == {0, 1, 100, 101}
BackendInputs ==
    {auto,
     <<" ", "'">> \o bing \o <<"'", " ">>,
     <<"'", " ">> \o auto \o <<" ", "'">>}
ProxyInputs == {<<" ">>, Proxy1, <<" ">> \o Proxy2 \o <<" ">>}

BaseArgs ==
    [query |-> Query, max_results |-> Absent, backend |-> Absent, proxy |-> Absent]

\* The argument mappings of a tool: the parameters of its inputSchema
Arguments(name) ==
    {BaseArgs, [BaseArgs EXCEPT !.query = Absent]}
    \cup {[BaseArgs EXCEPT !.max_results = PyInt(m)] : m \in MaxResultsInputs}
    \cup (IF name \in {TextTool, NewsTool}
          THEN {[BaseArgs EXCEPT !.backend = Str(b)] : b \in BackendInputs}
          ELSE {})
    \cup (IF name \in {TextTool} \cup UnknownNames
          THEN {[BaseArgs EXCEPT !.proxy = Str(x)] : x \in ProxyInputs}
          ELSE {})

ProviderError == Exc("DDGSException", <<"No results found.">>)

Complete(name) ==
    CASE name = TextTool ->
           [title |-> Str(<<"T">>), href |-> Str(<<"e", ".", "c">>), body |-> Str(<<"B">>)]
      [] name = ImageTool ->
           [title |-> Str(<<"T">>), image |-> Str(<<"i">>), width |-> PyInt(5)]
      [] name = VideoTool ->
           [title |-> Str(<<"T">>), content |-> Str(<<"c">>), description |-> Str(<<"D">>)]
      [] name = NewsTool ->
           [title |-> Str(<<"T">>), url |-> Str(<<"u">>), body |-> Str(<<"B">>)]
      [] name = BookTool ->
           [title |-> Str(<<"T">>), author |-> Str(<<"A">>), url |-> Str(<<"u">>)]

Sparse == [title |-> Str(<<"T">>)]

Malformed(name) ==
    CASE name = TextTool -> [title |-> None, href |-> PyInt(5)]
      [] name = VideoTool -> [title |-> Str(<<"T">>), description |-> None]
      [] OTHER -> [title |-> None]

Host == <<"e", ".", "c">>

\* Text results whose href has a scheme, starts with "//", has neither, is the
\* string 'N/A', or is empty
UrlResults ==
    <<[href |-> Str(HttpsPrefix \o Host)], [href |-> Str(HttpPrefix \o Host)],
      [href |-> Str(SlashSlash \o Host)], [href |-> Str(Host)],
      [href |-> Str(NA)], [href |-> Str(<<>>)]>>

\* What the provider call can do: raise, or return a list of result records
Outcomes(name) ==
    {Raises(ProviderError), Returns(<<>>), Returns(<<Complete(name)>>),
     Returns(<<Complete(name), Sparse>>), Returns(<<Malformed(name)>>)}
    \cup (IF name = TextTool THEN {Returns(UrlResults)} ELSE {})

----------------------------------------------------------------------------
(* State *)

VARIABLES
    ddgs_instance,  \* the module global: None or the cached DDGS
    built,          \* number of DDGS clients constructed so far
    pending,        \* handle_text_search coroutines awaiting their worker thread
    running,        \* the invocation whose provider call blocks the event loop
    last,           \* the invocation that completed most recently
    started,        \* number of invocations accepted so far
    failed          \* a provider call has raised

vars == <<ddgs_instance, built, pending, running, last, started, failed>>

Names == ToolNames \cup UnknownNames

NotReached ==
    [reached |-> FALSE, backend |-> Absent, proxy_value |-> Absent,
     ddgs |-> None, call |-> NoCall]

NotHandled == Handled(Return(<<>>), None, "none")

\* An invocation of handle_call_tool: its inputs, the locals of its handler,
\* and, once pc = "done", what handle_call_tool handed back.
Invocation(name, arguments, p, outcome, pc, after_failure, h) ==
    [name |-> name, arguments |-> arguments,
     backend |-> p.backend, proxy_value |-> p.proxy_value,
     ddgs |-> p.ddgs, call |-> p.call,
     outcome |-> outcome, pc |-> pc, after_failure |-> after_failure,
     response |-> h.result.content, escaped |-> h.result.tag = "raise",
     exc |-> h.exc, caught |-> h.caught]

Finish(f, outcome, h) ==
    [f EXCEPT !.outcome = outcome, !.pc = "done",
              !.response = h.result.content, !.escaped = h.result.tag = "raise",
              !.exc = h.exc, !.caught = h.caught]

Init ==
    /\ ddgs_instance = None
    /\ built = 0
    /\ pending = {}
    /\ running = None
    /\ last = None
    /\ started = 0
    /\ failed = FALSE

\* The event loop takes a new invocation only when it is not inside a handler
CanStart == started < MaxInv /\ running = None

\* handle_call_tool, else branch: raise ValueError, caught by its own except
CallUnknownTool ==
    \E name \in Names : \E arguments \in Arguments(name) :
        /\ CanStart
        /\ Route(name) = "unknown"
        /\ started' = started + 1
        /\ last' = Invocation(name, arguments, NotReached, NoOutcome, "done", failed,
                       handle_call_tool(
                           Handled(Raise(UnknownToolError(name)), None, "none")))
        /\ UNCHANGED <<ddgs_instance, built, pending, running, failed>>

\* handle_call_tool -> handle_text_search, up to await asyncio.to_thread(...)
TextSearchStart ==
    \E name \in Names : \E arguments \in Arguments(name) :
        LET p == TextPrepare(arguments, ddgs_instance, built) IN
        /\ CanStart
        /\ Route(name) = TextTool
        /\ started' = started + 1
        /\ ddgs_instance' = p.inst
        /\ built' = p.built
        /\ IF p.reached
           THEN /\ pending' = pending \cup
                      {Invocation(name, arguments, p, NoOutcome, "awaiting",
                                  failed, NotHandled)}
                /\ last' = last
           ELSE /\ last' = Invocation(name, arguments, p, NoOutcome, "done", failed,
                               handle_call_tool(TextExcept(
                                   Handled(Raise(KeyErrorQuery), None, "none"))))
                /\ pending' = pending
        /\ UNCHANGED <<running, failed>>

\* The worker thread's ddgs.text(...) returns or raises, and the event loop
\* resumes handle_text_search after its await
TextSearchResume ==
    \E f \in pending : \E outcome \in Outcomes(TextTool) :
        /\ running = None
        /\ pending' = pending \ {f}
        /\ last' = Finish(f, outcome, handle_call_tool(TextFinish(outcome)))
        /\ failed' = (failed \/ outcome.t = "raise")
        /\ UNCHANGED <<ddgs_instance, built, running, started>>

\* handle_call_tool -> one of the four handlers that call the provider
\* themselves, up to the provider call
SharedSearchStart(tool) ==
    \E arguments \in Arguments(tool) :
        LET p == SharedPrepare(tool, arguments, ddgs_instance, built) IN
        /\ CanStart
        /\ Route(tool) = tool
        /\ started' = started + 1
        /\ ddgs_instance' = p.inst
        /\ built' = p.built
        /\ IF p.reached
           THEN /\ running' = Invocation(tool, arguments, p, NoOutcome, "calling",
                                  failed, NotHandled)
                /\ last' = last
           ELSE /\ last' = Invocation(tool, arguments, p, NoOutcome, "done", failed,
                               handle_call_tool(
                                   Handled(Raise(KeyErrorQuery), None, "none")))
                /\ running' = running
        /\ UNCHANGED <<pending, failed>>

ImageSearchStart == SharedSearchStart(ImageTool)
VideoSearchStart == SharedSearchStart(VideoTool)
NewsSearchStart == SharedSearchStart(NewsTool)
BookSearchStart == SharedSearchStart(BookTool)

\* The provider call made on the event loop returns or raises, and the handler
\* runs to its end
LoopProviderCall ==
    /\ running # None
    /\ \E outcome \in Outcomes(running.name) :
        /\ last' = Finish(running, outcome,
                       handle_call_tool(SharedFinish(running.name, outcome)))
        /\ failed' = (failed \/ outcome.t = "raise")
    /\ running' = None
    /\ UNCHANGED <<ddgs_instance, built, pending, started>>

Next ==
    \/ CallUnknownTool
    \/ TextSearchStart
    \/ TextSearchResume
    \/ ImageSearchStart
    \/ VideoSearchStart
    \/ NewsSearchStart
    \/ BookSearchStart
    \/ LoopProviderCall

Spec == Init /\ [][Next]_vars

----------------------------------------------------------------------------
(* Properties *)

\* Every invocation the state holds: suspended, on the loop, or just completed
Live ==
    pending
    \cup (IF running = None THEN {} ELSE {running})
    \cup (IF last = None THEN {} ELSE {last})

\* The request names proxy x, with or without blanks around it
Carries(f, x) ==
    f.arguments.proxy \in {Str(x), Str(<<" ">> \o x \o <<" ">>)}

CarriesNoProxy(f) == f.arguments.proxy \in {Absent, Str(<<" ">>)}

SharedTools == {ImageTool, VideoTool, NewsTool, BookTool}

C1_ClientsKeepTheirProxy ==
    /\ \A f \in Live : \A x \in {Proxy1, Proxy2} :
         Carries(f, x) /\ f.call.op # "none" =>
            /\ f.ddgs.proxy = Str(x)
            /\ f.call.client = f.ddgs
            /\ f.ddgs # ddgs_instance
    /\ \A f \in pending : \A g \in pending :
         (\E x \in {Proxy1, Proxy2} : Carries(f, x) /\ ~Carries(g, x)) =>
            /\ f.ddgs.id # g.ddgs.id
            /\ f.ddgs.proxy # g.ddgs.proxy
    /\ ddgs_instance # None => ddgs_instance.proxy = None

C1_ProxyRequestLeavesCache ==
    (\E f \in pending' \ pending : \E x \in {Proxy1, Proxy2} : Carries(f, x))
        => ddgs_instance' = ddgs_instance

\* C1: concurrent invocations with different proxies each use a client with
\* their own proxy, never the other's; an invocation that names a proxy uses a
\* client built for it alone, which is not the cached ddgs_instance, and the
\* cached client is neither replaced nor given a proxy.
C1_ProxyIsolation ==
    []C1_ClientsKeepTheirProxy /\ [][C1_ProxyRequestLeavesCache]_vars

C1_Witness ==
    \E f \in pending : \E g \in pending :
        /\ Carries(f, Proxy1) /\ Carries(g, Proxy2)
        /\ f.call.client.proxy = Str(Proxy1)
        /\ g.call.client.proxy = Str(Proxy2)

\* C2: for each of the five tools the provider call runs on a worker and never
\* on the event loop, so the loop is never held by a provider call.
C2_ProviderCallOffLoop ==
    /\ running = None
    /\ \A f \in Live : f.call.op # "none" => f.call.ctx = "worker"

InRange(m) == m.t = "int" /\ SchemaMinimum <= m.v /\ m.v <= SchemaMaximum

Mentions(response, piece) ==
    \E i \in 1..Len(response) : \E j \in 1..Len(response[i].text) :
        response[i].text[j] = piece

\* C3: for every tool, max_results outside [1,100] gives a validation error
\* that names max_results and no provider call with that value; max_results
\* inside [1,100] reaches the provider unchanged.
C3_MaxResultsValidated ==
    \A f \in Live :
        LET m == f.arguments.max_results IN
        f.name \in ToolNames /\ f.arguments.query # Absent /\ m # Absent =>
            IF InRange(m)
            THEN f.call.op # "none" /\ f.call.max_results = m
            ELSE /\ f.call.op = "none"
                 /\ f.pc = "done" => Mentions(f.response, "max_results")

\* C4: an invocation whose name is not one of the five tools gets the
\* unknown-tool message, and during it no argument is normalized, no client is
\* constructed and no provider call is made.
C4_UnknownToolOnlyReportsError ==
    \A f \in Live :
        f.name \notin ToolNames =>
            /\ f.pc = "done"
            /\ f.response =
                 <<TextContent(<<"Error executing search: ", "Unknown tool: ", f.name>>)>>
            /\ ~f.escaped
            /\ f.backend = Absent /\ f.proxy_value = Absent
            /\ f.ddgs = None
            /\ f.call.op = "none"
            /\ f.outcome.t = "none"

C4_Witness ==
    /\ last # None
    /\ last.name \in UnknownNames
    /\ last.arguments.proxy = Str(Proxy1)
    /\ ddgs_instance # None

ErrorPrefixes == {"Search failed: ", "Search error: ", "Error executing search: "}

IsError(f) ==
    Len(f.response) = 1 /\ f.response[1].text[1] \in ErrorPrefixes

IsListing(f) ==
    Len(f.response) = 1 /\ f.response[1].text[1] = "Found "

Rendered(name) == {<<Complete(name)>>, <<Complete(name), Sparse>>}

\* C5: when the provider call raises, the invocation hands back exactly one
\* text content, an error message with the provider's message in it, and no
\* exception leaves handle_call_tool; an invocation that comes after such a
\* failure and whose provider call returns results hands back their listing.
C5_ProviderFailureIsOneErrorText ==
    \A f \in Live :
        f.pc = "done" =>
            /\ Len(f.response) = 1
            /\ f.response[1].type = "text"
            /\ ~f.escaped
            /\ f.outcome.t = "raise" =>
                  /\ IsError(f)
                  /\ ~IsListing(f)
                  /\ f.response[1].text[2] = f.outcome.exc.msg[1]
            /\ f.after_failure /\ f.outcome.t = "return"
                  /\ f.outcome.results \in Rendered(f.name) => IsListing(f)

C5_Witness ==
    /\ last # None
    /\ last.pc = "done"
    /\ last.after_failure
    /\ last.name \in SharedTools
    /\ last.outcome.t = "return"
    /\ last.outcome.results # <<>>
    /\ IsListing(last)

\* C6 as stated: one client is cached for the no-proxy case, and every
\* no-proxy request of any kind, text included, uses that same cached client
\* instead of building another.
C6_EveryNoProxyRequestUsesCache ==
    \A f \in Live :
        CarriesNoProxy(f) /\ f.call.op # "none" =>
            /\ ddgs_instance # None
            /\ f.ddgs = ddgs_instance

C6_CacheServesSharedTools ==
    /\ \A f \in Live :
         f.call.op # "none" =>
            IF f.name \in SharedTools
            THEN /\ ddgs_instance # None
                 /\ f.ddgs = ddgs_instance
                 /\ f.call.client = ddgs_instance
            ELSE f.ddgs # ddgs_instance
    /\ \A f \in Live : \A g \in Live :
         f.name = TextTool /\ g.name = TextTool /\ f # g
            /\ f.call.op # "none" /\ g.call.op # "none" => f.ddgs.id # g.ddgs.id
    /\ ddgs_instance # None => ddgs_instance.proxy = None

C6_CacheBuiltOnceLazily ==
    /\ ddgs_instance # None => ddgs_instance' = ddgs_instance
    /\ ddgs_instance = None /\ ddgs_instance' # None =>
          /\ running' # None
          /\ running'.name \in SharedTools
          /\ running'.ddgs = ddgs_instance'

\* C6 (amended): one client is cached; the first image, video, news or book
\* request that reaches its provider call builds it, it is never built again,
\* and every later image, video, news or book request uses that same client.
\* A text search never uses the cache: each one builds a client of its own.
C6_OneCachedClientForSharedTools ==
    []C6_CacheServesSharedTools /\ [][C6_CacheBuiltOnceLazily]_vars

C6_Witness ==
    /\ last # None /\ running # None
    /\ last.name \in SharedTools /\ running.name \in SharedTools
    /\ last.name # running.name
    /\ last.call.op # "none"
    /\ running.call.client = last.call.client
    /\ built = 1

\* C7: a text or news request with backend "auto" or without backend reaches
\* the provider with one fixed concrete backend name, never with "auto".
C7_AutoReachesProviderResolved ==
    \A f \in Live :
        /\ f.name \in {TextTool, NewsTool}
        /\ f.call.op # "none"
        /\ f.arguments.backend \in {Absent, Str(auto)}
        => /\ f.call.backend # Str(auto)
           /\ \A g \in Live :
                /\ g.name \in {TextTool, NewsTool}
                /\ g.call.op # "none"
                /\ g.arguments.backend \in {Absent, Str(auto)}
                => g.call.backend = f.call.backend

\* C8: normalizing an already normalized backend or proxy gives the same value.
C8_NormalizationIdempotent ==
    \A f \in Live :
        f.name = TextTool /\ f.call.op # "none" =>
            /\ NormalizeBackend(f.backend) = f.backend
            /\ NormalizeProxy(f.proxy_value) = f.proxy_value

NoResultsLiterals ==
    {<<TextTool, "No results found.">>, <<ImageTool, "No images found.">>,
     <<VideoTool, "No videos found.">>, <<NewsTool, "No news found.">>,
     <<BookTool, "No books found.">>}

\* Every exception the handlers can meet
Exceptions ==
    {ProviderError, KeyErrorQuery, NoStartswith, NotSubscriptable(None),
     NotSubscriptable(PyInt(5))}
    \cup {UnknownToolError(name) : name \in UnknownNames}

\* Every text an except clause can produce
ErrorTexts ==
    {SearchFailedText(e) : e \in Exceptions}
    \cup {SearchErrorText(e) : e \in Exceptions}
    \cup {ErrorExecutingText(e) : e \in Exceptions}

\* C9: when the provider returns an empty sequence the response is the literal
\* no-results message of the kind, no except clause was entered, and the message
\* is none of the texts an except clause produces.
C9_EmptyResultsAreNotErrors ==
    \A f \in Live :
        f.pc = "done" /\ f.outcome = Returns(<<>>) =>
            /\ \E lit \in NoResultsLiterals :
                 /\ lit[1] = f.name
                 /\ f.response = <<TextContent(<<lit[2]>>)>>
            /\ f.exc = None /\ f.caught = "none" /\ ~f.escaped
            /\ f.response[1].text \notin ErrorTexts
            /\ ~IsError(f)

C9_Witness ==
    /\ last # None
    /\ last.pc = "done"
    /\ last.name = ImageTool
    /\ last.outcome = Returns(<<>>)
    /\ last.response = <<TextContent(<<"No images found.">>)>>
    /\ failed

\* C10: formatting never fails: whatever records the provider returns, with
\* fields absent, None or not strings, the response is the listing and not an
\* error message.
C10_FormattingNeverFails ==
    \A f \in Live :
        f.pc = "done" /\ f.outcome.t = "return" /\ f.outcome.results # <<>> =>
            /\ IsListing(f)
            /\ f.exc = None

UrlMarker == "\n   URL: "
LineBreak == "\n   "

\* Where the urls of a text listing start: the positions of "URL: "
UrlMarks(text) == {j \in 1..Len(text) : text[j] = UrlMarker}

\* The i-th url a text listing shows: the pieces between the i-th "URL: " and
\* the line that follows it
ShownUrl(text, i) ==
    LET j == CHOOSE k \in UrlMarks(text) :
                 Cardinality({m \in UrlMarks(text) : m <= k}) = i
        e == CHOOSE k \in (j + 1)..Len(text) :
                 /\ text[k] = LineBreak
                 /\ \A m \in (j + 1)..(k - 1) : text[m] # LineBreak
    IN SubSeq(text, j + 1, e - 1)

HasScheme(u) == startswith(u, HttpPrefix) \/ startswith(u, HttpsPrefix)

\* The completed text searches whose results all carry a string href
UrlListings ==
    {f \in Live :
        /\ f.name = TextTool /\ f.pc = "done" /\ f.outcome.t = "return"
        /\ f.outcome.results # <<>>
        /\ \A i \in 1..Len(f.outcome.results) :
             /\ "href" \in DOMAIN f.outcome.results[i]
             /\ f.outcome.results[i].href.t = "str"}

RewrittenAsStated(href, shown) ==
    /\ HasScheme(href) => shown = href
    /\ ~HasScheme(href) /\ startswith(href, SlashSlash) => shown = HttpsColon \o href
    /\ ~HasScheme(href) /\ ~startswith(href, SlashSlash) => shown = HttpsPrefix \o href
    /\ HasScheme(shown)

\* C11 as stated: every url of a text result that has one is shown unchanged
\* when it starts with "http://" or "https://", with "https:" in front when it
\* starts with "//", and with "https://" in front otherwise, so the url shown
\* always starts with "http://" or "https://".
C11_EveryUrlShownWithScheme ==
    \A f \in UrlListings :
        /\ IsListing(f)
        /\ Cardinality(UrlMarks(f.response[1].text)) = Len(f.outcome.results)
        /\ \A i \in 1..Len(f.outcome.results) :
             LET href == f.outcome.results[i].href.v IN
             href # <<>> =>
                RewrittenAsStated(href, ShownUrl(f.response[1].text, i))

\* C11 (amended): the same for every url of a text result that is a non-empty
\* string other than the string 'N/A'; a url that is exactly 'N/A', or empty,
\* is shown as it is, without a scheme.
C11_UrlShownWithSchemeUnlessNA ==
    \A f \in UrlListings :
        /\ IsListing(f)
        /\ Cardinality(UrlMarks(f.response[1].text)) = Len(f.outcome.results)
        /\ \A i \in 1..Len(f.outcome.results) :
             LET href == f.outcome.results[i].href.v
                 shown == ShownUrl(f.response[1].text, i)
             IN IF href = <<>> \/ href = NA
                THEN shown = href
                ELSE RewrittenAsStated(href, shown)

C11_Witness ==
    /\ last # None
    /\ last \in UrlListings
    /\ last.outcome.results = UrlResults
    /\ ShownUrl(last.response[1].text, 3) = HttpsPrefix \o Host
    /\ ShownUrl(last.response[1].text, 4) = HttpsPrefix \o Host
    /\ ShownUrl(last.response[1].text, 1) = HttpsPrefix \o Host

====
